---- MODULE Spec2Model ----
(***************************************************************************)
(* A model of the utils library: utils/bio.py (sequence transforms, FASTA  *)
(* parsing and writing) and utils/common.py (path helpers, gzip wrapper).  *)
(*                                                                         *)
(* A Python str is a sequence of one-character strings; Python indices are *)
(* kept 0-based where the code computes with them (find, slices).  A call  *)
(* either returns a value or raises: Return(v) / Raise(e).                  *)
(***************************************************************************)
EXTENDS Integers, Sequences, FiniteSets, TLC

VARIABLES
    s_input,    \* SpecSeq: the str the transforms are applied to
    s_ops,      \* SpecSeq: the functions applied so far, in order
    s_value,    \* SpecSeq: the outcome of applying s_ops to s_input
    fs,         \* the text files: path -> [exists, text]
    pc,         \* SpecFasta: position in parse / write / re-parse
    parsed,     \* SpecFasta: outcome of fasta_to_dictionary on the input file
    written,    \* SpecFasta: outcome of write_to_file on the parsed records
    reparsed,   \* SpecFasta: outcome of fasta_to_dictionary on the written file
    w_call,     \* SpecWrite: the arguments of the last write_to_file call
    w_result,   \* SpecWrite: its outcome
    w_before,   \* SpecWrite: the files as they were when it was called
    p_path,     \* SpecPath: the argument of extract_filename
    p_result,   \* SpecPath: its outcome
    d_entries,  \* SpecDir: the entries of the directory: name -> kind
    d_call,     \* SpecDir: the arguments of the last filename_by_extension call
    d_result,   \* SpecDir: its outcome
    z_pc,       \* SpecDir: position inside compress_file
    z_file,     \* SpecDir: the argument of compress_file
    z_gzip,     \* SpecDir: how the gzip subprocess ended
    z_exc,      \* SpecDir: the exception compress_file is raising, if any
    z_stdout    \* SpecDir: what compress_file has printed

seqVars == <<s_input, s_ops, s_value>>
fastaVars == <<pc, parsed, written, reparsed>>
writeVars == <<w_call, w_result, w_before>>
pathVars == <<p_path, p_result>>
dirVars == <<d_entries, d_call, d_result>>
gzipVars == <<z_pc, z_file, z_gzip, z_exc, z_stdout>>
vars == <<seqVars, fs, fastaVars, writeVars, pathVars, dirVars, gzipVars>>

----------------------------------------------------------------------------
(* Bounds of the model *)

MaxSeqLen == 3
MaxTextLen == 5
MaxRecords == 2
MaxPathLen == 4

----------------------------------------------------------------------------
(* Python values and outcomes *)

Return(v) == [kind |-> "return", value |-> v]
Raise(e) == [kind |-> "raise", exc |-> e]

\* a call that has not been made has no outcome yet
NotCalled == [kind |-> "not called"]

\* the variables of a specification that is not the one running
SeqIdle == s_input = <<>> /\ s_ops = <<>> /\ s_value = NotCalled
FastaIdle ==
    pc = "idle" /\ parsed = NotCalled /\ written = NotCalled /\ reparsed = NotCalled
WriteIdle == w_call = NotCalled /\ w_result = NotCalled /\ w_before = NotCalled
PathIdle == p_path = <<>> /\ p_result = NotCalled
DirIdle ==
    /\ d_entries = <<>> /\ d_call = NotCalled /\ d_result = NotCalled
    /\ z_pc = "idle" /\ z_file = <<>> /\ z_gzip = NotCalled
    /\ z_exc = "none" /\ z_stdout = <<>>

\* every str of length at most n over the characters of alphabet
StrUpTo(alphabet, n) == UNION {[1..k -> alphabet] : k \in 0..n}

\* characters the model feeds the sequence transforms: the four bases, a
\* lowercase base and an ambiguity code
SeqChars == {"A", "T", "G", "C", "a", "N"}

----------------------------------------------------------------------------
(* utils/bio.py: alphabet, validation, transforms *)

unambiguous_dna_letters == <<"G", "A", "T", "C">>

valid_bases == <<"A", "T", "G", "C">>

\* the for loop of is_valid_dna: False at the first base not in valid_bases
RECURSIVE is_valid_dna(_)
is_valid_dna(sequence) ==
    IF sequence = <<>> THEN TRUE
    ELSE IF \A j \in DOMAIN valid_bases : valid_bases[j] # Head(sequence) THEN FALSE
    ELSE is_valid_dna(Tail(sequence))

\* sequence[::-1]
reverse(sequence) ==
    [i \in 1..Len(sequence) |-> sequence[Len(sequence) + 1 - i]]

complement_dict_GG == [b \in {"A", "C", "T", "G"} |->
    CASE b = "A" -> "T" [] b = "C" -> "G" [] b = "T" -> "A" [] b = "G" -> "G"]

complement_dict == [b \in {"A", "C", "T", "G"} |->
    CASE b = "A" -> "T" [] b = "C" -> "G" [] b = "T" -> "A" [] b = "G" -> "C"]

\* [complement_dict[base] for base in sequences]: a missing key raises KeyError
complement(sequence) ==
    IF \E i \in DOMAIN sequence : sequence[i] \notin DOMAIN complement_dict
    THEN Raise("KeyError")
    ELSE Return([i \in DOMAIN sequence |-> complement_dict[sequence[i]]])

reverse_complement_noreverse(sequence) == complement(sequence)

\* complement(reverse(sequence)); reverse never raises
reverse_complement(sequence) == complement(reverse(sequence))

----------------------------------------------------------------------------
(* Python str operations the FASTA code uses *)

NL == "\n"

\* str.find(c): the 0-based index of the first c in s, or -1
find(s, c) ==
    IF \E i \in DOMAIN s : s[i] = c
    THEN (CHOOSE i \in DOMAIN s : s[i] = c /\ \A j \in 1..(i - 1) : s[j] # c) - 1
    ELSE -1

\* s[start:] for a 0-based start, negative counted from the end and clamped
SliceFrom(s, start) ==
    LET n == Len(s)
        a == IF start < 0 THEN (IF start + n < 0 THEN 0 ELSE start + n)
             ELSE (IF start > n THEN n ELSE start)
    IN SubSeq(s, a + 1, n)

\* s.split(sep) for a one-character sep: always at least one piece
RECURSIVE split(_, _)
split(s, sep) ==
    LET k == find(s, sep)
    IN IF k = -1 THEN <<s>>
       ELSE <<SubSeq(s, 1, k)>> \o split(SubSeq(s, k + 2, Len(s)), sep)

\* the whitespace str.split() splits on, among the characters of the model
IsSpace(c) == c \in {" ", NL, "\t", "\r"}

\* s.split(): the maximal runs of non-whitespace, in order
RECURSIVE split_whitespace(_)
split_whitespace(s) ==
    IF s = <<>> THEN <<>>
    ELSE IF IsSpace(Head(s)) THEN split_whitespace(Tail(s))
    ELSE LET rest == Tail(s)
             stop == IF \E i \in DOMAIN rest : IsSpace(rest[i])
                     THEN CHOOSE i \in DOMAIN rest :
                              IsSpace(rest[i]) /\ \A j \in 1..(i - 1) : ~IsSpace(rest[j])
                     ELSE Len(rest) + 1
         IN <<SubSeq(s, 1, stop)>> \o split_whitespace(SubSeq(rest, stop, Len(rest)))

\* "".join(pieces)
RECURSIVE join(_)
join(pieces) ==
    IF pieces = <<>> THEN <<>> ELSE Head(pieces) \o join(Tail(pieces))

----------------------------------------------------------------------------
(* The text files the FASTA functions read and write *)

FileNames == {"in.fa", "out.fa"}

NoFile == [exists |-> FALSE, text |-> <<>>]
File(text) == [exists |-> TRUE, text |-> text]

\* a dict (a Mapping) and an element that is no Mapping (a str, a number)
PyDict(d) == [isMapping |-> TRUE, d |-> d]

----------------------------------------------------------------------------
(* utils/bio.py: fasta_to_dictionary *)

\* description and end_of_description before the loop assigns them
Unbound == [bound |-> FALSE, description |-> <<>>, end_of_description |-> 0]

\* lines 125-127: both locals are assigned only for a chunk of length > 0
chunk_locals(i, loc) ==
    IF Len(i) > 0
    THEN [bound |-> TRUE,
          description |-> split(i, NL)[1],
          end_of_description |-> find(i, NL)]
    ELSE loc

\* lines 123-130: the loop over input_sequences[1:].  Line 129 reads
\* end_of_description whether or not this chunk assigned it: unbound, that
\* is an UnboundLocalError, which the bare except turns into IOError.
RECURSIVE parse_chunks(_, _, _)
parse_chunks(chunks, loc, sequences) ==
    IF chunks = <<>> THEN Return(sequences)
    ELSE LET i == Head(chunks)
             now == chunk_locals(i, loc)
         IN IF ~now.bound THEN Raise("IOError")
            ELSE LET sequence == split_whitespace(SliceFrom(i, now.end_of_description))
                 IN parse_chunks(Tail(chunks), now,
                        Append(sequences,
                               PyDict([id |-> now.description, sequence |-> join(sequence)])))

unknown_id == <<"u", "n", "k", "n", "o", "w", "n", "_", "i", "d">>

\* lines 113-138: open() of a missing file raises inside the try
fasta_to_dictionary(fsys, f) ==
    IF ~fsys[f].exists THEN Raise("IOError")
    ELSE LET sequence_text == fsys[f].text
         IN IF \E k \in DOMAIN sequence_text : sequence_text[k] = ">"
            THEN parse_chunks(Tail(split(sequence_text, ">")), Unbound, <<>>)
            ELSE Return(<<PyDict([id |-> unknown_id,
                                 sequence |-> join(split(sequence_text, NL))])>>)

----------------------------------------------------------------------------
(* utils/bio.py: write_to_file *)

None == <<"None">>

PyList(items) == [isSequence |-> TRUE, items |-> items]

\* f">{header_}\n{sequence_}\n"
fasta_block(header_, sequence_) == <<">">> \o header_ \o <<NL>> \o sequence_ \o <<NL>>

\* lines 156-166: the loop over data inside `with open(filename, "w")`;
\* text is what has been written so far.  A non-Mapping element, a missing
\* key (KeyError) and an unsupported format (ValueError) all raise.
RECURSIVE write_records(_, _, _)
write_records(items, format, text) ==
    IF items = <<>> THEN [raised |-> FALSE, text |-> text]
    ELSE LET record_ == Head(items)
         IN IF ~record_.isMapping THEN [raised |-> TRUE, text |-> text]
            ELSE IF "id" \notin DOMAIN record_.d THEN [raised |-> TRUE, text |-> text]
            ELSE IF "sequence" \notin DOMAIN record_.d THEN [raised |-> TRUE, text |-> text]
            ELSE IF format = "fasta"
                 THEN write_records(Tail(items), format,
                          text \o fasta_block(record_.d["id"], record_.d["sequence"]))
            ELSE [raised |-> TRUE, text |-> text]

\* lines 147-169: the outcome of the call and the files it leaves.  The file
\* is opened (created or truncated) only for a Sequence; leaving the with
\* block closes it with what was written, also when the loop raised; the
\* bare except turns every exception of the try into TypeError.
write_to_file(fsys, data, filename, format) ==
    IF data.items = <<>> THEN [outcome |-> Raise("ValueError"), fs |-> fsys]
    ELSE IF filename = "" THEN [outcome |-> Raise("ValueError"), fs |-> fsys]
    ELSE IF data.isSequence
         THEN LET w == write_records(data.items, format, <<>>)
              IN [outcome |-> IF w.raised THEN Raise("TypeError") ELSE Return(None),
                  fs |-> [fsys EXCEPT ![filename] = File(w.text)]]
    ELSE [outcome |-> Return(None), fs |-> fsys]

----------------------------------------------------------------------------
(* SpecFasta: a text file is drawn (or no file at all); it is parsed, the   *)
(* records are written to a second file, and that file is parsed again     *)

TextChars == {">", NL, " ", "A", "b"}

FastaInit ==
    /\ SeqIdle /\ WriteIdle /\ PathIdle /\ DirIdle
    /\ \/ fs = [f \in FileNames |-> NoFile]
       \/ \E text \in StrUpTo(TextChars, MaxTextLen) :
            fs = [f \in FileNames |-> IF f = "in.fa" THEN File(text) ELSE NoFile]
    /\ pc = "parse"
    /\ parsed = NotCalled /\ written = NotCalled /\ reparsed = NotCalled

Parse ==
    /\ pc = "parse"
    /\ parsed' = fasta_to_dictionary(fs, "in.fa")
    /\ pc' = "write"
    /\ UNCHANGED <<seqVars, writeVars, pathVars, dirVars, gzipVars, fs, written, reparsed>>

Write ==
    /\ pc = "write"
    /\ parsed.kind = "return"
    /\ LET w == write_to_file(fs, PyList(parsed.value), "out.fa", "fasta")
       IN written' = w.outcome /\ fs' = w.fs
    /\ pc' = "reparse"
    /\ UNCHANGED <<seqVars, writeVars, pathVars, dirVars, gzipVars, parsed, reparsed>>

Reparse ==
    /\ pc = "reparse"
    /\ written.kind = "return"
    /\ reparsed' = fasta_to_dictionary(fs, "out.fa")
    /\ pc' = "done"
    /\ UNCHANGED <<seqVars, writeVars, pathVars, dirVars, gzipVars, fs, parsed, written>>

FastaNext == Parse \/ Write \/ Reparse

SpecFasta == FastaInit /\ [][FastaNext]_vars

----------------------------------------------------------------------------
(* utils/common.py: extract_filename, with the os.path functions it calls *)

\* str.rfind(c): the 0-based index of the last c in s, or -1
rfind(s, c) ==
    IF \E i \in DOMAIN s : s[i] = c
    THEN (CHOOSE i \in DOMAIN s : s[i] = c /\ \A j \in (i + 1)..Len(s) : s[j] # c) - 1
    ELSE -1

\* os.path.split(p)[1]: what follows the last "/"
ospath_split_tail(p) == SubSeq(p, rfind(p, "/") + 2, Len(p))

\* a split at the last "." whatever precedes it
ospath_splitext_lastdot(p) ==
    LET dotIndex == rfind(p, ".")
    IN IF dotIndex = -1 THEN <<p, <<>>>>
       ELSE <<SubSeq(p, 1, dotIndex), SubSeq(p, dotIndex + 1, Len(p))>>

\* os.path.splitext(p) for a p without "/": the split is at the last ".",
\* unless only "." characters precede it (leading dots start no extension)
ospath_splitext(p) ==
    LET dotIndex == rfind(p, ".")
    IN IF dotIndex > -1 /\ \E k \in 1..dotIndex : p[k] # "."
       THEN <<SubSeq(p, 1, dotIndex), SubSeq(p, dotIndex + 1, Len(p))>>
       ELSE <<p, <<>>>>

extract_filename(path) == ospath_splitext(ospath_split_tail(path))

----------------------------------------------------------------------------
(* SpecPath: a path is drawn and extract_filename is called on it *)

PathChars == {"/", ".", "a", "b"}

PathInit ==
    /\ SeqIdle /\ FastaIdle /\ WriteIdle /\ DirIdle
    /\ fs = [f \in FileNames |-> NoFile]
    /\ p_path \in StrUpTo(PathChars, MaxPathLen)
    /\ p_result = NotCalled

CallExtractFilename ==
    /\ p_result = NotCalled
    /\ p_result' = Return(extract_filename(p_path))
    /\ UNCHANGED <<seqVars, fs, fastaVars, writeVars, dirVars, gzipVars, p_path>>

PathNext == CallExtractFilename

SpecPath == PathInit /\ [][PathNext]_vars

----------------------------------------------------------------------------
(* utils/common.py: filename_by_extension, over one directory *)

\* the directory, the names an entry of it can have, and the kinds of entry
Dir == <<"d">>
GzSuffix == <<".", "g", "z">>
Names == {<<"a", ".", "f", "a">>, <<"a", "l", "f", "a">>, <<"b">>}
AllNames == Names \cup {n \o GzSuffix : n \in Names}
Kinds == {"absent", "file", "dir"}

\* str.endswith(suffix)
endswith(s, suffix) ==
    /\ Len(suffix) <= Len(s)
    /\ SubSeq(s, Len(s) - Len(suffix) + 1, Len(s)) = suffix

\* os.path.join(a, b)
ospath_join(a, b) ==
    IF b # <<>> /\ b[1] = "/" THEN b
    ELSE IF a = <<>> \/ a[Len(a)] = "/" THEN a \o b
    ELSE a \o <<"/">> \o b

\* os.path.isdir / os.path.isfile / os.listdir; a subdirectory is empty
ospath_isdir(entries, p) ==
    p = Dir \/ \E n \in AllNames : p = ospath_join(Dir, n) /\ entries[n] = "dir"

ospath_isfile(entries, p) ==
    \E n \in AllNames : p = ospath_join(Dir, n) /\ entries[n] = "file"

os_listdir(entries, p) ==
    IF p = Dir THEN {n \in AllNames : entries[n] # "absent"} ELSE {}

\* the orders os.listdir may return the names in: any
Listings(names) ==
    {l \in [1..Cardinality(names) -> names] :
        \A i, j \in 1..Cardinality(names) : i # j => l[i] # l[j]}

\* lines 38-44: the comprehension over os.listdir(input_), in listing order
RECURSIVE matching_entries(_, _, _)
matching_entries(input_, listing, extension) ==
    IF listing = <<>> THEN <<>>
    ELSE (IF endswith(Head(listing), extension)
          THEN <<ospath_join(input_, Head(listing))>> ELSE <<>>)
         \o matching_entries(input_, Tail(listing), extension)

\* lines 36-55; listing is what os.listdir(input_) returns
filename_by_extension(entries, input_, extension, listing) ==
    LET files == IF ospath_isdir(entries, input_)
                 THEN matching_entries(input_, listing, extension)
                 ELSE IF endswith(input_, extension) THEN <<input_>> ELSE <<>>
    IN IF ~ospath_isdir(entries, input_) /\ ~ospath_isfile(entries, input_)
       THEN Raise("ValueError")
       ELSE IF files = <<>> THEN Raise("FileNotFoundError")
       ELSE Return(files)

----------------------------------------------------------------------------
(* utils/common.py: compress_file *)

Exited(returncode) == [kind |-> "exited", returncode |-> returncode]
NotStarted == [kind |-> "not started"]

\* gzip -f file_ on the directory: the ways the subprocess can end and the
\* entries it leaves.  A regular file without the .gz suffix is replaced by
\* its .gz (exit 0) unless the .gz is a directory, or gzip fails on it
\* (exit 1); anything else is left alone with a non-zero exit status.
gzip_f(entries, file_) ==
    LET hit == {n \in AllNames : file_ = ospath_join(Dir, n) /\ entries[n] = "file"
                                  /\ ~endswith(n, GzSuffix)
                                  /\ entries[n \o GzSuffix] # "dir"}
    IN {[proc |-> Exited(1), entries |-> entries],
        [proc |-> NotStarted, entries |-> entries]}
       \cup {[proc |-> Exited(0),
               entries |-> [entries EXCEPT ![n] = "absent", ![n \o GzSuffix] = "file"]] :
                  n \in hit}
       \cup (IF hit = {} THEN {[proc |-> Exited(2), entries |-> entries]} ELSE {})

\* the clauses run the other way round: except on status 0, else otherwise
after_try_swapped(proc) ==
    IF proc.kind = "not started" THEN "finally"
    ELSE IF proc.returncode # 0 THEN "else"
    ELSE "except"

\* lines 22-29: check_output raises CalledProcessError on a non-zero exit
\* status (the except clause runs), returns on status 0 (the else clause
\* runs), and raises an OSError neither clause handles when gzip cannot be
\* started
after_try(proc) ==
    IF proc.kind = "not started" THEN "finally"
    ELSE IF proc.returncode # 0 THEN "except"
    ELSE "else"

FailedToGzip == [msg |-> "Failed to gzip: .", file |-> <<>>]
HasBeenGzipped(file_) == [msg |-> " has been gzipped.", file |-> file_]

----------------------------------------------------------------------------
(* SpecDir: a directory is drawn; filename_by_extension and compress_file  *)
(* are called on it, one call at a time                                    *)

DirInputs == {Dir, <<"x">>} \cup {ospath_join(Dir, n) : n \in AllNames}
Extensions == {<<"f", "a">>, <<".", "f", "a">>, <<"g", "z">>, <<>>}

DirInit ==
    /\ SeqIdle /\ FastaIdle /\ WriteIdle /\ PathIdle
    /\ fs = [f \in FileNames |-> NoFile]
    /\ \E kinds \in [Names -> Kinds] :
            d_entries = [n \in AllNames |-> IF n \in Names THEN kinds[n] ELSE "absent"]
    /\ d_call = NotCalled /\ d_result = NotCalled
    /\ z_pc = "idle" /\ z_file = <<>> /\ z_gzip = NotCalled
    /\ z_exc = "none" /\ z_stdout = <<>>

\* no call is in progress
AtRest == z_pc \in {"idle", "returned", "raised"}

CallFilenameByExtension ==
    /\ AtRest
    /\ \E input_ \in DirInputs, extension \in Extensions :
         \E listing \in Listings(os_listdir(d_entries, input_)) :
            /\ d_call' = [kind |-> "called", input |-> input_, extension |-> extension]
            /\ d_result' = filename_by_extension(d_entries, input_, extension, listing)
    /\ z_pc' = "idle" /\ z_file' = <<>> /\ z_gzip' = NotCalled
    /\ z_exc' = "none" /\ z_stdout' = <<>>
    /\ UNCHANGED <<seqVars, fs, fastaVars, writeVars, pathVars, d_entries>>

CallCompressFile ==
    /\ AtRest
    /\ \E file_ \in DirInputs : z_file' = file_
    /\ z_pc' = "try"
    /\ z_gzip' = NotCalled /\ z_exc' = "none" /\ z_stdout' = <<>>
    /\ d_call' = NotCalled /\ d_result' = NotCalled
    /\ UNCHANGED <<seqVars, fs, fastaVars, writeVars, pathVars, d_entries>>

\* line 23: check_output(["gzip", "-f", file_])
CheckOutput ==
    /\ z_pc = "try"
    /\ \E g \in gzip_f(d_entries, z_file) :
            /\ z_gzip' = g.proc
            /\ d_entries' = g.entries
            /\ z_pc' = after_try(g.proc)
            /\ z_exc' = IF g.proc.kind = "not started" THEN "FileNotFoundError" ELSE "none"
    /\ UNCHANGED <<seqVars, fs, fastaVars, writeVars, pathVars, d_call, d_result,
                   z_file, z_stdout>>

\* lines 24-26: the message is printed and the exception is dropped
ExceptClause ==
    /\ z_pc = "except"
    /\ z_stdout' = Append(z_stdout, FailedToGzip)
    /\ z_pc' = "finally"
    /\ UNCHANGED <<seqVars, fs, fastaVars, writeVars, pathVars, dirVars,
                   z_file, z_gzip, z_exc>>

\* lines 27-29: raise OSError
ElseClause ==
    /\ z_pc = "else"
    /\ z_exc' = "OSError"
    /\ z_pc' = "finally"
    /\ UNCHANGED <<seqVars, fs, fastaVars, writeVars, pathVars, dirVars,
                   z_file, z_gzip, z_stdout>>

\* lines 30-31: the message is printed, then a pending exception goes on
FinallyClause ==
    /\ z_pc = "finally"
    /\ z_stdout' = Append(z_stdout, HasBeenGzipped(z_file))
    /\ z_pc' = IF z_exc = "none" THEN "returned" ELSE "raised"
    /\ UNCHANGED <<seqVars, fs, fastaVars, writeVars, pathVars, dirVars,
                   z_file, z_gzip, z_exc>>

DirNext ==
    \/ CallFilenameByExtension
    \/ CallCompressFile
    \/ CheckOutput
    \/ ExceptClause
    \/ ElseClause
    \/ FinallyClause

SpecDir == DirInit /\ [][DirNext]_vars

----------------------------------------------------------------------------
(* SpecWrite: write_to_file is called again and again, with every kind of  *)
(* data, on a file that holds what the calls before left in it             *)

NotMapping == [isMapping |-> FALSE, d |-> [str |-> <<"x">>]]

\* the elements data is made of: two full records, a dict without "sequence",
\* a dict without "id", and an element that is no Mapping
Elements ==
    { PyDict([id |-> <<"a">>, sequence |-> <<"A", "C">>]),
      PyDict([id |-> <<"b">>, sequence |-> <<"G">>]),
      PyDict([id |-> <<"a">>]),
      PyDict([sequence |-> <<"A">>]),
      NotMapping }

\* data: a Sequence (list, tuple) of elements, or a collection that is not
\* one (set, dict, iterator) holding them
DataValues ==
    {[isSequence |-> q, items |-> items] :
        q \in BOOLEAN, items \in StrUpTo(Elements, MaxRecords)}

WriteInit ==
    /\ SeqIdle /\ FastaIdle /\ PathIdle /\ DirIdle
    /\ fs = [f \in FileNames |-> IF f = "in.fa" THEN File(<<"A">>) ELSE NoFile]
    /\ w_call = NotCalled /\ w_result = NotCalled /\ w_before = NotCalled

CallWriteToFile ==
    \E data \in DataValues, filename \in {"", "out.fa"}, format \in {"fasta", "genbank"} :
        LET w == write_to_file(fs, data, filename, format)
        IN /\ w_call' = [kind |-> "called", data |-> data,
                          filename |-> filename, format |-> format]
           /\ w_result' = w.outcome
           /\ w_before' = fs
           /\ fs' = w.fs
           /\ UNCHANGED <<seqVars, fastaVars, pathVars, dirVars, gzipVars>>

WriteNext == CallWriteToFile

SpecWrite == WriteInit /\ [][WriteNext]_vars

----------------------------------------------------------------------------
(* SpecSeq: a str is drawn, then up to MaxOps transforms are applied to it, *)
(* each to the value the previous one returned                              *)

MaxOps == 2

SeqInit ==
    /\ fs = [f \in FileNames |-> NoFile]
    /\ FastaIdle /\ WriteIdle /\ PathIdle /\ DirIdle
    /\ s_input \in StrUpTo(SeqChars, MaxSeqLen)
    /\ s_ops = <<>>
    /\ s_value = Return(s_input)

SeqReady == Len(s_ops) < MaxOps /\ s_value.kind = "return" /\ s_ops # <<"is_valid_dna">>

CallReverse ==
    /\ SeqReady
    /\ s_value' = Return(reverse(s_value.value))
    /\ s_ops' = Append(s_ops, "reverse")
    /\ UNCHANGED <<s_input, fs, fastaVars, writeVars, pathVars, dirVars, gzipVars>>

CallComplement ==
    /\ SeqReady
    /\ s_value' = complement(s_value.value)
    /\ s_ops' = Append(s_ops, "complement")
    /\ UNCHANGED <<s_input, fs, fastaVars, writeVars, pathVars, dirVars, gzipVars>>

CallReverseComplement ==
    /\ SeqReady
    /\ s_value' = reverse_complement(s_value.value)
    /\ s_ops' = Append(s_ops, "reverse_complement")
    /\ UNCHANGED <<s_input, fs, fastaVars, writeVars, pathVars, dirVars, gzipVars>>

CallIsValidDna ==
    /\ s_ops = <<>>
    /\ s_value' = Return(is_valid_dna(s_input))
    /\ s_ops' = <<"is_valid_dna">>
    /\ UNCHANGED <<s_input, fs, fastaVars, writeVars, pathVars, dirVars, gzipVars>>

SeqNext == CallReverse \/ CallComplement \/ CallReverseComplement \/ CallIsValidDna

SpecSeq == SeqInit /\ [][SeqNext]_vars

----------------------------------------------------------------------------
(* Claims about the sequence transforms (SpecSeq) *)

OverATGC(s) == \A i \in DOMAIN s : s[i] \in {"A", "T", "G", "C"}

\* the pairing A<->T, C<->G as the claims state it
WatsonCrick(b) ==
    IF b = "A" THEN "T" ELSE IF b = "T" THEN "A" ELSE IF b = "C" THEN "G" ELSE "C"

\* C3: for every s over {A,T,G,C} (the empty str included),
\* reverse_complement(reverse_complement(s)) = s, and reverse_complement(s)
\* is both complement(reverse(s)) and reverse(complement(s)): the value the
\* call returned equals the value each two-step chain returned.
C3_ReverseComplement ==
    OverATGC(s_input) =>
        /\ s_ops = <<"reverse_complement", "reverse_complement">>
                => s_value = Return(s_input)
        /\ s_ops = <<"reverse_complement">>
                => /\ s_value.kind = "return"
                   /\ complement(s_input).kind = "return"
                   /\ s_value.value = reverse(complement(s_input).value)
        /\ s_ops = <<"reverse", "complement">>
                => s_value = reverse_complement(s_input)
        /\ s_ops = <<"complement", "reverse">>
                => s_value = reverse_complement(s_input)

C3_Witness ==
    /\ s_input = <<"A", "A", "C">>
    /\ s_ops = <<"reverse_complement", "reverse_complement">>
    /\ s_value = Return(<<"A", "A", "C">>)

\* C9: complement(s) raises a lookup error (KeyError) iff is_valid_dna(s) is
\* false, i.e. iff some character of s is outside {A,T,C,G}; when valid it
\* returns a str of the same length whose i-th character is the pair of s[i],
\* and complement(complement(s)) = s.
C9_ComplementLookup ==
    /\ s_ops = <<"is_valid_dna">> => s_value.value = OverATGC(s_input)
    /\ s_ops = <<"complement">> =>
            /\ s_value.kind = "raise" <=> ~is_valid_dna(s_input)
            /\ s_value.kind = "raise" <=> ~OverATGC(s_input)
            /\ s_value.kind = "raise" => s_value.exc = "KeyError"
            /\ s_value.kind = "return" =>
                    /\ Len(s_value.value) = Len(s_input)
                    /\ \A i \in DOMAIN s_input :
                            s_value.value[i] = WatsonCrick(s_input[i])
    /\ s_ops = <<"complement", "complement">> =>
            /\ OverATGC(s_input)
            /\ s_value = Return(s_input)

C9_Witness ==
    /\ s_input = <<"G", "a">>
    /\ s_ops = <<"complement">>
    /\ s_value = Raise("KeyError")

----------------------------------------------------------------------------
(* Claims about FASTA parsing and the round trip (SpecFasta) *)

\* the text of the input file (SpecFasta never writes it)
InputText == fs["in.fa"].text

HasHeader(text) == \E k \in DOMAIN text : text[k] = ">"

\* the chunks after the first ">", and those of them that are not empty
Chunks(text) == Tail(split(text, ">"))
NonEmpty(chunk) == Len(chunk) > 0
NonEmptyChunks(text) == SelectSeq(Chunks(text), NonEmpty)

\* a chunk up to, not including, its first line break (all of it without one)
FirstLine(chunk) ==
    IF find(chunk, NL) = -1 THEN chunk ELSE SubSeq(chunk, 1, find(chunk, NL))

\* a chunk from its first line break to its end (nothing without one)
AfterFirstLine(chunk) ==
    IF find(chunk, NL) = -1 THEN <<>> ELSE SubSeq(chunk, find(chunk, NL) + 1, Len(chunk))

NotSpace(c) == ~IsSpace(c)
WithoutWhitespace(s) == SelectSeq(s, NotSpace)

\* C1: round trip.  If fasta_to_dictionary(T) succeeds with R, then
\* write_to_file(R, path) succeeds and fasta_to_dictionary(path) returns a
\* list of the same length with the same id and sequence at every index,
\* for texts with and without ">".
C1_RoundTrip ==
    /\ (pc = "reparse" /\ parsed.kind = "return") => written.kind = "return"
    /\ pc = "done" =>
            /\ reparsed.kind = "return"
            /\ Len(reparsed.value) = Len(parsed.value)
            /\ \A i \in DOMAIN parsed.value :
                    /\ reparsed.value[i].d["id"] = parsed.value[i].d["id"]
                    /\ reparsed.value[i].d["sequence"] = parsed.value[i].d["sequence"]

\* C2: for a text with at least one ">", fasta_to_dictionary returns exactly
\* one record per non-empty chunk, in order of appearance; an empty chunk
\* contributes no record and causes no failure.
C2_OneRecordPerNonEmptyChunk ==
    (pc = "write" /\ HasHeader(InputText)) =>
        /\ parsed.kind = "return"
        /\ Len(parsed.value) = Len(NonEmptyChunks(InputText))
        /\ \A k \in DOMAIN parsed.value :
                /\ DOMAIN parsed.value[k].d = {"id", "sequence"}
                /\ parsed.value[k].d["id"] = FirstLine(NonEmptyChunks(InputText)[k])

\* C7: the record of a non-empty chunk has id = the chunk up to its first
\* line break, verbatim, and sequence = the text from that line break to the
\* chunk's end with all whitespace removed; a header-only chunk with no line
\* break yields an empty sequence.  Stated for the texts all of whose chunks
\* are non-empty, where record k is the record of chunk k.
C7_IdAndSequenceOfChunk ==
    (/\ pc = "write"
     /\ HasHeader(InputText)
     /\ \A k \in DOMAIN Chunks(InputText) : NonEmpty(Chunks(InputText)[k])) =>
        /\ parsed.kind = "return"
        /\ Len(parsed.value) = Len(Chunks(InputText))
        /\ \A k \in DOMAIN Chunks(InputText) :
                /\ parsed.value[k].d["id"] = FirstLine(Chunks(InputText)[k])
                /\ parsed.value[k].d["sequence"]
                        = WithoutWhitespace(AfterFirstLine(Chunks(InputText)[k]))

----------------------------------------------------------------------------
(* Claims about write_to_file (SpecWrite) *)

Called == w_call.kind = "called"

\* a mapping that supplies both keys
FullRecord(e) == e.isMapping /\ {"id", "sequence"} \subseteq DOMAIN e.d

\* the ">{id}\n{sequence}\n" blocks of the full records items, in order
RECURSIVE Blocks(_)
Blocks(items) ==
    IF items = <<>> THEN <<>>
    ELSE <<">">> \o Head(items).d["id"] \o <<NL>> \o Head(items).d["sequence"] \o <<NL>>
         \o Blocks(Tail(items))

\* the index (0-based) of the first record the call cannot write: one that is
\* no full record, or any record under a format other than "fasta"
RECURSIVE FirstFailing(_, _)
FirstFailing(items, format) ==
    IF items = <<>> THEN 0
    ELSE IF FullRecord(Head(items)) /\ format = "fasta"
         THEN 1 + FirstFailing(Tail(items), format)
    ELSE 0

\* the call must fail by what the claim lists
MustFail(call) ==
    \/ call.data.items = <<>>
    \/ call.filename = ""
    \/ \E k \in DOMAIN call.data.items : ~FullRecord(call.data.items[k])
    \/ call.format # "fasta"

\* C4: if records is empty, or filename is empty, or some element is not a
\* mapping supplying both "id" and "sequence", or format is not "fasta", the
\* call signals an error (it never returns normally).
C4_MalformedInputRaises ==
    (Called /\ MustFail(w_call)) => w_result.kind = "raise"

\* What holds of the code: for data that is a Sequence (list, tuple) such a
\* call raises, ValueError for empty data or an empty filename, TypeError
\* for everything else.
SequenceDataRaises ==
    (Called /\ w_call.data.isSequence /\ MustFail(w_call)) =>
        w_result = IF w_call.data.items = <<>> \/ w_call.filename = ""
                   THEN Raise("ValueError") ELSE Raise("TypeError")

\* the three cases of C10 for one call
RejectedUnchanged ==
    (w_call.data.items = <<>> \/ w_call.filename = "") =>
        /\ w_result.kind = "raise"
        /\ fs = w_before

FailedLeavesPrefix ==
    (/\ w_call.data.items # <<>>
     /\ w_call.filename # ""
     /\ w_result.kind = "raise") =>
        LET k == FirstFailing(w_call.data.items, w_call.format)
        IN /\ k < Len(w_call.data.items)
           /\ fs = [w_before EXCEPT ![w_call.filename] =
                        File(Blocks(SubSeq(w_call.data.items, 1, k)))]

SucceededLeavesAll ==
    w_result.kind = "return" =>
        /\ \A k \in DOMAIN w_call.data.items : FullRecord(w_call.data.items[k])
        /\ fs = [w_before EXCEPT ![w_call.filename] = File(Blocks(w_call.data.items))]

\* C10: the destination file after write_to_file.  A call rejected for empty
\* records or an empty filename leaves the files unchanged; a call on a
\* non-empty list failing at record k leaves exactly the blocks of records
\* 0..k-1 (the previous content is lost); a successful call leaves exactly
\* the blocks of all its records, in input order, and nothing of the
\* previous content.
C10_FileAfterWrite ==
    Called => RejectedUnchanged /\ FailedLeavesPrefix /\ SucceededLeavesAll

\* What holds of the code: the three cases for data that is a Sequence.
SequenceDataFileAfterWrite ==
    (Called /\ w_call.data.isSequence) =>
        RejectedUnchanged /\ FailedLeavesPrefix /\ SucceededLeavesAll

----------------------------------------------------------------------------
(* Claims about extract_filename (SpecPath) *)

\* the final path component: what follows the last "/" of the path
RECURSIVE FinalComponent(_)
FinalComponent(path) ==
    IF path = <<>> THEN <<>>
    ELSE IF path[Len(path)] = "/" THEN <<>>
    ELSE Append(FinalComponent(SubSeq(path, 1, Len(path) - 1)), path[Len(path)])

HasDot(s) == \E k \in DOMAIN s : s[k] = "."
LastDot(s) == CHOOSE k \in DOMAIN s : s[k] = "." /\ \A j \in (k + 1)..Len(s) : s[j] # "."

\* the component split at its last ".": <<before it, from it on>>
SplitAtLastDot(s) == <<SubSeq(s, 1, LastDot(s) - 1), SubSeq(s, LastDot(s), Len(s))>>

\* some character other than "." precedes the last "." of the component
DotAfterName(s) == HasDot(s) /\ \E j \in 1..(LastDot(s) - 1) : s[j] # "."

\* C6 as stated: base + ext is the final component and, whenever the
\* component contains a ".", ext is the suffix starting at its last "." and
\* base everything before it, for every position of the last ".", a
\* component whose only "." is its first character included.
C6_SplitAtLastDot ==
    p_result.kind = "return" =>
        LET c == FinalComponent(p_path)
        IN /\ p_result.value[1] \o p_result.value[2] = c
           /\ HasDot(c) => p_result.value = SplitAtLastDot(c)

\* C6, amended: base + ext is the final component; ext is the suffix starting
\* at the last "." and base everything before it whenever some character
\* other than "." precedes that "."; otherwise (no ".", or only "."
\* characters before the last one) ext is empty and base the whole component.
C6_SplitAtLastDotAfterName ==
    p_result.kind = "return" =>
        LET c == FinalComponent(p_path)
        IN /\ p_result.value[1] \o p_result.value[2] = c
           /\ DotAfterName(c) => p_result.value = SplitAtLastDot(c)
           /\ ~DotAfterName(c) => p_result.value = <<c, <<>>>>

C6_Witness ==
    /\ p_path = <<"a", "/", ".", "b">>
    /\ p_result = Return(<<<<".", "b">>, <<>>>>)

----------------------------------------------------------------------------
(* Claims about filename_by_extension and compress_file (SpecDir) *)

\* the paths of the files directly inside the directory input_ whose name
\* ends with extension
MatchingFiles(input_, extension) ==
    {ospath_join(input_, n) : n \in {m \in os_listdir(d_entries, input_) :
        d_entries[m] = "file" /\ endswith(m, extension)}}

Elems(l) == {l[i] : i \in DOMAIN l}

\* C5: for a directory input, filename_by_extension returns exactly the
\* paths of the files directly inside it whose name ends with extension,
\* each once and nothing else (no subdirectory entries); when no entry
\* qualifies it raises a not-found error; when input is neither a directory
\* nor a file it raises a value error.
C5_ExactlyTheMatchingFiles ==
    d_call.kind = "called" =>
        /\ ospath_isdir(d_entries, d_call.input) =>
                LET want == MatchingFiles(d_call.input, d_call.extension)
                IN IF want = {} THEN d_result = Raise("FileNotFoundError")
                   ELSE /\ d_result.kind = "return"
                        /\ Elems(d_result.value) = want
                        /\ Len(d_result.value) = Cardinality(want)
        /\ (~ospath_isdir(d_entries, d_call.input)
                /\ ~ospath_isfile(d_entries, d_call.input))
                => d_result = Raise("ValueError")

\* What holds of the code: for a directory it returns the paths of all the
\* entries, files and subdirectories alike, whose name matches.
DirectoryGivesMatchingEntries ==
    (d_call.kind = "called" /\ ospath_isdir(d_entries, d_call.input)) =>
        LET want == {ospath_join(d_call.input, n) :
                        n \in {m \in os_listdir(d_entries, d_call.input) :
                                  endswith(m, d_call.extension)}}
        IN IF want = {} THEN d_result = Raise("FileNotFoundError")
           ELSE /\ d_result.kind = "return"
                /\ Elems(d_result.value) = want
                /\ Len(d_result.value) = Cardinality(want)

\* C8: compress_file signals the wrong way round.  When gzip exits with a
\* non-zero status the call prints a message and returns normally; when gzip
\* exits with status zero the call raises OSError; in both cases
\* "<path> has been gzipped." is printed before control leaves the function.
C8_InvertedSignalling ==
    (z_gzip.kind = "exited" /\ z_pc \in {"returned", "raised"}) =>
        /\ z_gzip.returncode # 0 =>
                /\ z_pc = "returned"
                /\ z_exc = "none"
                /\ z_stdout = <<FailedToGzip, HasBeenGzipped(z_file)>>
        /\ z_gzip.returncode = 0 =>
                /\ z_pc = "raised"
                /\ z_exc = "OSError"
                /\ z_stdout = <<HasBeenGzipped(z_file)>>

C8_Witness ==
    /\ z_gzip = Exited(0)
    /\ z_pc = "raised"
    /\ z_file = <<"d", "/", "a", ".", "f", "a">>
    /\ d_entries[<<"a", ".", "f", "a", ".", "g", "z">>] = "file"

====
